---- MODULE Spec2Model ----
(***************************************************************************)
(* Model of the schema-constrained extraction pipeline:                    *)
(*   backend/models.py        the pydantic contract (TaskItem,             *)
(*                            ExtractionResult)                            *)
(*   backend/function_app.py  the HTTP handler `ingest`                    *)
(*                                                                         *)
(* The handler uses model_json_schema() and model_dump(), so the contract  *)
(* is read with pydantic v2 semantics: a field declared with Field(...)    *)
(* and no default is required even when annotated Optional, `str` fields   *)
(* accept strings only, unknown keys are ignored, and a default_factory    *)
(* runs only for a field the input does not supply.                        *)
(*                                                                         *)
(* models.py is read as the declarations it intends: its import line 14   *)
(* carries a `//` remark and does not import Field, so the file as it     *)
(* stands does not import; the model takes BaseModel and Field to be      *)
(* pydantic's.                                                            *)
(*                                                                         *)
(* JSON values are tagged records; raw text (an HTTP body, a producer      *)
(* response) is either prose that no JSON parser accepts or the            *)
(* serialisation of a JSON value.                                          *)
(***************************************************************************)
EXTENDS Integers, Sequences, FiniteSets, TLC

VARIABLES
    pc,         \* position of the invocation: idle, start, call, validate, done
    api_key,    \* os.environ.get("GEMINI_API_KEY")
    req,        \* raw body of the inbound HTTP request
    raw_text,   \* req_body.get("document_text")
    producer,   \* outcome of client.models.generate_content
    calls,      \* number of generate_content calls made by this invocation
    http,       \* what the invocation ended with
    prev        \* <<error kind, classification>> of the previous invocation

vars == <<pc, api_key, req, raw_text, producer, calls, http, prev>>

----------------------------------------------------------------------------
(* Bounds *)

MaxTasks == 2      \* longest task list the producer returns
MaxClock == 1      \* utcnow() readings are 0..MaxClock

----------------------------------------------------------------------------
(* JSON values *)

JNull == [t |-> "null"]
JStr(s) == [t |-> "str", s |-> s]
JNum(n) == [t |-> "num", n |-> n]
JArr(a) == [t |-> "arr", a |-> a]
JObj(o) == [t |-> "obj", o |-> o]

Has(o, k) == k \in DOMAIN o
Restrict(o, S) == [k \in S |-> o[k]]
With(o, k, v) == [x \in (DOMAIN o) \cup {k} |-> IF x = k THEN v ELSE o[x]]

(* Raw text *)
Prose(s) == [t |-> "prose", s |-> s]
Serialized(v) == [t |-> "json", v |-> v]

(* json.loads / HttpRequest.get_json: both raise a ValueError on text that  *)
(* is not JSON; str(JSONDecodeError) is the decoder's message.              *)
JSONDecodeMessage == "Expecting value: line 1 column 1 (char 0)"
json_loads(text) ==
    IF text.t = "json"
    THEN [ok |-> TRUE, value |-> text.v, error |-> ""]
    ELSE [ok |-> FALSE, value |-> JNull, error |-> JSONDecodeMessage]

(* Python truthiness of a decoded JSON value (`not raw_text`) *)
Truthy(v) ==
    CASE v.t = "null" -> FALSE
      [] v.t = "str"  -> Len(v.s) > 0
      [] v.t = "num"  -> v.n # 0
      [] v.t = "arr"  -> Len(v.a) > 0
      [] v.t = "obj"  -> DOMAIN v.o # {}

(* dict.get(key): None when the key is absent *)
dict_get(o, k) == IF Has(o, k) THEN o[k] ELSE JNull

----------------------------------------------------------------------------
(* The contract: models.py *)

(* One entry per declared field: required (no default), nullable           *)
(* (Optional[...]), the default, and whether the default comes from the    *)
(* default_factory (the clock).                                            *)
TaskItemFields ==
    << [name |-> "title",           required |-> TRUE,  nullable |-> FALSE,
        default |-> JNull,               factory |-> FALSE],
       [name |-> "description",     required |-> FALSE, nullable |-> TRUE,
        default |-> JStr(""),            factory |-> FALSE],
       [name |-> "status",          required |-> FALSE, nullable |-> FALSE,
        default |-> JStr("pending"),     factory |-> FALSE],
       [name |-> "priority",        required |-> FALSE, nullable |-> FALSE,
        default |-> JStr("medium"),      factory |-> FALSE],
       [name |-> "owner",           required |-> FALSE, nullable |-> TRUE,
        default |-> JStr("Unassigned"),  factory |-> FALSE],
       [name |-> "deadline",        required |-> FALSE, nullable |-> TRUE,
        default |-> JNull,               factory |-> FALSE],
       [name |-> "source_evidence", required |-> FALSE, nullable |-> TRUE,
        default |-> JNull,               factory |-> FALSE],
       [name |-> "created_at",      required |-> FALSE, nullable |-> FALSE,
        default |-> JNull,               factory |-> TRUE] >>

ExtractionResultFields ==
    << [name |-> "project_name", required |-> TRUE, nullable |-> TRUE,
        default |-> JNull, factory |-> FALSE],
       [name |-> "meeting_date", required |-> TRUE, nullable |-> TRUE,
        default |-> JNull, factory |-> FALSE],
       [name |-> "summary",      required |-> TRUE, nullable |-> FALSE,
        default |-> JNull, factory |-> FALSE] >>

FieldNames(fields) == {fields[i].name : i \in DOMAIN fields}
FieldOf(fields, k) == CHOOSE f \in {fields[i] : i \in DOMAIN fields} : f.name = k

(* datetime.utcnow().isoformat() for clock reading n *)
Isoformat(n) ==
    CASE n = 0 -> "2026-01-01T00:00:00"
      [] n = 1 -> "2026-01-01T00:00:01"
      [] n = 2 -> "2026-01-01T00:00:02"
      [] OTHER -> "2026-01-01T00:00:03"

(* A `str` field takes a string; an Optional[str] field also takes null. *)
StrAccepts(f, v) == v.t = "str" \/ (f.nullable /\ v.t = "null")

(* Errors of binding the scalar fields of `fields` from the mapping o,    *)
(* reported under the location prefix loc.                                *)
FieldErrors(fields, o, loc) ==
    { [loc |-> loc \o <<fields[i].name>>, type |-> "missing"] :
        i \in {j \in DOMAIN fields : fields[j].required /\ ~Has(o, fields[j].name)} }
    \cup
    { [loc |-> loc \o <<fields[i].name>>, type |-> "string_type"] :
        i \in {j \in DOMAIN fields :
                 Has(o, fields[j].name) /\ ~StrAccepts(fields[j], o[fields[j].name])} }

(* Faulty variants of FieldValue: one leaves an omitted field null, the   *)
(* other lets a declared default override the supplied value.            *)
FieldValue_NoDefault(f, o, now) ==
    IF Has(o, f.name) THEN o[f.name]
    ELSE IF f.factory THEN JStr(Isoformat(now))
    ELSE JNull

FieldValue_DefaultWins(f, o, now) ==
    IF ~f.required /\ ~f.factory /\ f.default # JNull THEN f.default
    ELSE IF Has(o, f.name) THEN o[f.name]
    ELSE IF f.factory THEN JStr(Isoformat(now))
    ELSE f.default

(* Value a scalar field binds to: the supplied value, else the default,   *)
(* else the factory's value at clock reading now.                         *)
FieldValue(f, o, now) ==
    IF Has(o, f.name) THEN o[f.name]
    ELSE IF f.factory THEN JStr(Isoformat(now))
    ELSE f.default

(* Construction of a TaskItem from one list item: errors and model_dump() *)
TaskItemErrors(item, i) ==
    IF item.t # "obj"
    THEN {[loc |-> <<"tasks", i>>, type |-> "model_type"]}
    ELSE FieldErrors(TaskItemFields, item.o, <<"tasks", i>>)

TaskItemDump(item, now) ==
    JObj([k \in FieldNames(TaskItemFields) |->
            FieldValue(FieldOf(TaskItemFields, k), item.o, now)])

(* tasks: List[TaskItem] *)
TasksErrors(o) ==
    IF ~Has(o, "tasks") THEN {[loc |-> <<"tasks">>, type |-> "missing"]}
    ELSE IF o["tasks"].t # "arr" THEN {[loc |-> <<"tasks">>, type |-> "list_type"]}
    ELSE UNION {TaskItemErrors(o["tasks"].a[i], i - 1) : i \in DOMAIN o["tasks"].a}

(* Construction of ExtractionResult from a mapping: the validation       *)
(* errors, and model_dump() when there are none.  stamps[i] is the clock   *)
(* reading seen while task i is constructed.                               *)
ExtractionResultErrors(o) ==
    FieldErrors(ExtractionResultFields, o, <<>>) \cup TasksErrors(o)

ExtractionResultDump(o, stamps) ==
    JObj([k \in FieldNames(ExtractionResultFields) \cup {"tasks"} |->
            IF k = "tasks"
            THEN JArr([i \in DOMAIN o["tasks"].a |->
                         TaskItemDump(o["tasks"].a[i], stamps[i])])
            ELSE FieldValue(FieldOf(ExtractionResultFields, k), o, 0)])

----------------------------------------------------------------------------
(* Inputs: the environment, inbound bodies, producer outcomes *)

ApiKeys == {JNull, JStr(""), JStr("AIza-key")}

DocumentTexts ==
    {JNull, JStr(""), JStr("  \n"), JNum(0), JNum(7),
     JStr("Meeting 2025-01-10: Alice will update the API schema by Friday Jan 17.")}

Bodies ==
    {Prose("document_text=notes"),
     Serialized(JArr(<<>>)), Serialized(JNull), Serialized(JStr("notes")),
     Serialized(JObj(<<>>))}
    \cup {Serialized(JObj([k \in {"document_text"} |-> d])) : d \in DocumentTexts}

BaseTask ==
    [k \in {"title", "status", "priority", "owner", "deadline", "source_evidence"} |->
        CASE k = "title"    -> JStr("Update API schema")
          [] k = "status"   -> JStr("in-progress")
          [] k = "priority" -> JStr("high")
          [] k = "owner"    -> JStr("Alice")
          [] k = "deadline" -> JStr("2025-01-17")
          [] OTHER          -> JStr("Alice will update the API schema by Friday Jan 17.")]

Defaulted == {"status", "priority", "owner"}
ProducerStamp == JStr("1999-12-31T23:59:59")

TaskObjects ==
    {Restrict(BaseTask, (DOMAIN BaseTask) \ S) : S \in SUBSET Defaulted}
    \cup {With(BaseTask, "status", JStr("archived")),
          With(BaseTask, "status", JStr("completed")),
          With(BaseTask, "status", JNull),
          With(BaseTask, "priority", JStr("urgent")),
          With(BaseTask, "owner", JNull),
          With(BaseTask, "created_at", ProducerStamp),
          Restrict(BaseTask, (DOMAIN BaseTask) \ {"title"})}

TaskValues == {JObj(o) : o \in TaskObjects} \cup {JStr("Update API schema")}

TaskLists == UNION {[1..n -> TaskValues] : n \in 0..MaxTasks}

Choices(k, vs) == {<<>>} \cup {[x \in {k} |-> v] : v \in vs}
Merge(a, b) == [x \in (DOMAIN a) \cup (DOMAIN b) |-> IF x \in DOMAIN a THEN a[x] ELSE b[x]]

ResultObjects ==
    {Merge(Merge(p, m), Merge(u, t)) :
        p \in Choices("project_name", {JNull, JStr("Intelligence Hub")}),
        m \in Choices("meeting_date", {JStr("2025-01-10")}),
        u \in Choices("summary", {JStr("Schema update planned.")}),
        t \in Choices("tasks", {JArr(l) : l \in TaskLists})}
    \cup {[k \in {"project_name", "meeting_date", "summary", "tasks"} |->
             IF k = "tasks" THEN JStr("none") ELSE JNull]}

ProducerTexts ==
    {Prose("Sure! Here are your tasks:\n1. ..."),
     Serialized(JArr(<<>>)), Serialized(JNull)}
    \cup {Serialized(JObj(o)) : o \in ResultObjects}

ProducerErrors == {"503 UNAVAILABLE", "Connection reset by peer"}

(* Outcome of generate_content *)
NoOutcome == [t |-> "none", text |-> Prose(""), error |-> ""]
Returned(text) == [t |-> "text", text |-> text, error |-> ""]
Raised(msg) == [t |-> "raise", text |-> Prose(""), error |-> msg]

(* Clock readings taken while a list of n tasks is constructed: the clock *)
(* does not run backwards.                                                *)
Stamps(n) ==
    {s \in [1..n -> 0..MaxClock] : \A i \in 1..n : \A j \in 1..n : i <= j => s[i] <= s[j]}

----------------------------------------------------------------------------
(* The handler: function_app.py *)

(* func.HttpResponse: status code, the fixed part of the body, and the    *)
(* variable part: str(e), the validation errors of e.json(), or the       *)
(* "data" of the success document.                                        *)
HttpResponse(code, message, detail, errors, data) ==
    [status_code |-> code, message |-> message, detail |-> detail,
     errors |-> errors, data |-> data, escaped |-> ""]

(* No response: the exception leaves the handler. *)
Escaped(type) ==
    [status_code |-> 0, message |-> "", detail |-> "",
     errors |-> {}, data |-> JNull, escaped |-> type]

NoResponse == Escaped("")

MissingKey    == HttpResponse(500, "Error: GEMINI_API_KEY is missing.", "", {}, JNull)
FieldRequired == HttpResponse(400, "Error: 'document_text' field is required.", "", {}, JNull)
BodyNotJson   == HttpResponse(400, "Error: Body must be valid JSON.", "", {}, JNull)
InvalidStructure(errors) ==
    HttpResponse(500, "AI returned invalid data structure: ", "", errors, JNull)
ServerError(msg) == HttpResponse(500, "Server Error: ", msg, {}, JNull)
Success(data) == HttpResponse(200, "AI Extraction Complete", "", {}, data)

(* `if not api_key` *)
KeyMissing(key) == ~Truthy(key)

(* `if not raw_text` *)
TextRejected(text) == ~Truthy(text)

(* Lines 17-33: what the handler does before the external call.  The      *)
(* result names the next position, the response when there is one, and    *)
(* raw_text.  req_body.get on a decoded body that is not a dict raises    *)
(* AttributeError, which `except ValueError` does not catch.              *)
BeforeCall(key, body) ==
    LET parsed == json_loads(body) IN
    IF KeyMissing(key)
    THEN [pc |-> "done", http |-> MissingKey, raw_text |-> JNull]
    ELSE IF ~parsed.ok
    THEN [pc |-> "done", http |-> BodyNotJson, raw_text |-> JNull]
    ELSE IF parsed.value.t # "obj"
    THEN [pc |-> "done", http |-> Escaped("AttributeError"), raw_text |-> JNull]
    ELSE LET text == dict_get(parsed.value.o, "document_text") IN
         IF TextRejected(text)
         THEN [pc |-> "done", http |-> FieldRequired, raw_text |-> text]
         ELSE [pc |-> "call", http |-> NoResponse, raw_text |-> text]

TypeErrorMessage == "argument after ** must be a mapping"

(* Lines 65-84: parse, bind, respond.  json.loads failures and the        *)
(* TypeError of unpacking a non-mapping fall to `except Exception`.       *)
Validate(text, stamps) ==
    LET parsed == json_loads(text) IN
    IF ~parsed.ok THEN ServerError(parsed.error)
    ELSE IF parsed.value.t # "obj" THEN ServerError(TypeErrorMessage)
    ELSE LET errors == ExtractionResultErrors(parsed.value.o) IN
         IF errors # {} THEN InvalidStructure(errors)
         ELSE Success(ExtractionResultDump(parsed.value.o, stamps))

(* Lines 57-84 once generate_content has returned or raised *)
AfterCall(outcome, stamps) ==
    IF outcome.t = "raise" THEN ServerError(outcome.error)
    ELSE Validate(outcome.text, stamps)

(* Number of tasks that will be constructed from a producer outcome *)
TaskCount(outcome) ==
    IF /\ outcome.t = "text"
       /\ outcome.text.t = "json"
       /\ outcome.text.v.t = "obj"
       /\ Has(outcome.text.v.o, "tasks")
       /\ outcome.text.v.o["tasks"].t = "arr"
    THEN Len(outcome.text.v.o["tasks"].a)
    ELSE 0

----------------------------------------------------------------------------
(* Observation of a finished invocation *)

(* What a caller can tell a response by: the status code and the fixed *)
(* part of the body (or the exception that escaped).                    *)
Classification(r) == <<r.status_code, r.message, r.escaped>>

(* The error kind of section 7 that the invocation's inputs fall under *)
ErrorKind ==
    CASE KeyMissing(api_key)      -> "ConfigurationError"
      [] producer.t = "none"      -> "InvalidRequest"
      [] producer.t = "raise"     -> "ProducerUnavailable"
      [] producer.text.t # "json" -> "MalformedOutput"
      [] http.status_code # 200   -> "SchemaViolation"
      [] OTHER                    -> "none"

NoPrev == [kind |-> "", class |-> <<0, "", "">>]

----------------------------------------------------------------------------
(* Actions *)

Init ==
    /\ pc = "idle"
    /\ api_key = JNull
    /\ req = Prose("")
    /\ raw_text = JNull
    /\ producer = NoOutcome
    /\ calls = 0
    /\ http = NoResponse
    /\ prev = NoPrev

(* A request arrives: the function host calls ingest(req). *)
Invoke ==
    /\ pc = "idle"
    /\ \E key \in ApiKeys : \E body \in Bodies :
          /\ api_key' = key
          /\ req' = body
    /\ pc' = "start"
    /\ UNCHANGED <<raw_text, producer, calls, http, prev>>

(* ingest up to the point where generate_content is called *)
IngestBegin ==
    /\ pc = "start"
    /\ LET r == BeforeCall(api_key, req) IN
          /\ pc' = r.pc
          /\ http' = r.http
          /\ raw_text' = r.raw_text
          /\ calls' = IF r.pc = "call" THEN calls + 1 ELSE calls
    /\ UNCHANGED <<api_key, req, producer, prev>>

(* generate_content returns the producer's text *)
ProducerReturns ==
    /\ pc = "call"
    /\ \E text \in ProducerTexts : producer' = Returned(text)
    /\ pc' = "finish"
    /\ UNCHANGED <<api_key, req, raw_text, calls, http, prev>>

(* generate_content raises *)
ProducerRaises ==
    /\ pc = "call"
    /\ \E msg \in ProducerErrors : producer' = Raised(msg)
    /\ pc' = "finish"
    /\ UNCHANGED <<api_key, req, raw_text, calls, http, prev>>

(* Faulty variant of IngestFinish: a failed call is retried once. *)
IngestFinish_Retry ==
    /\ pc = "finish"
    /\ \E stamps \in Stamps(TaskCount(producer)) :
          LET r == AfterCall(producer, stamps) IN
          IF producer.t = "raise" /\ calls < 2
          THEN /\ pc' = "start"
               /\ http' = http
          ELSE /\ pc' = "done"
               /\ http' = r
    /\ UNCHANGED <<api_key, req, raw_text, producer, calls, prev>>

(* ingest from the return of generate_content to its own return *)
IngestFinish ==
    /\ pc = "finish"
    /\ \E stamps \in Stamps(TaskCount(producer)) :
          http' = AfterCall(producer, stamps)
    /\ pc' = "done"
    /\ UNCHANGED <<api_key, req, raw_text, producer, calls, prev>>

(* The invocation is over; the host is ready for the next request. *)
Reset ==
    /\ pc' = "idle"
    /\ api_key' = JNull
    /\ req' = Prose("")
    /\ raw_text' = JNull
    /\ producer' = NoOutcome
    /\ calls' = 0
    /\ http' = NoResponse

NextInvocation ==
    /\ pc = "done"
    /\ Reset
    /\ UNCHANGED prev

(* The same, with the finished invocation's kind and classification kept *)
(* for comparison with the next one.                                     *)
NextInvocationObserved ==
    /\ pc = "done"
    /\ Reset
    /\ prev' = [kind |-> ErrorKind, class |-> Classification(http)]

Next ==
    \/ Invoke
    \/ IngestBegin
    \/ ProducerReturns
    \/ ProducerRaises
    \/ IngestFinish
    \/ NextInvocation

Spec == Init /\ [][Next]_vars

NextPair ==
    \/ Invoke
    \/ IngestBegin
    \/ ProducerReturns
    \/ ProducerRaises
    \/ IngestFinish
    \/ NextInvocationObserved

SpecPair == Init /\ [][NextPair]_vars

----------------------------------------------------------------------------
(* Vocabulary of the properties *)

Done == pc = "done"
Succeeded == Done /\ http.status_code = 200

CredentialPresent == api_key.t = "str" /\ api_key.s # ""

RequestIsObject == req.t = "json" /\ req.v.t = "obj"
BlankTexts == {"", "  \n"}
DocumentTextBlank ==
    /\ RequestIsObject
    /\ Has(req.v.o, "document_text")
    /\ req.v.o["document_text"].t = "str"
    /\ req.v.o["document_text"].s \in BlankTexts

ProducerParsed == producer.t = "text" /\ producer.text.t = "json"
ProducerIsObject == ProducerParsed /\ producer.text.v.t = "obj"
ProducerObject == producer.text.v.o
ProducerHasTasks ==
    /\ ProducerIsObject
    /\ Has(ProducerObject, "tasks")
    /\ ProducerObject["tasks"].t = "arr"
ProducerTasks == ProducerObject["tasks"].a
ResultTasks == http.data.o["tasks"].a

StatusEnum == {JStr("pending"), JStr("in-progress"), JStr("completed")}
PriorityEnum == {JStr("high"), JStr("medium"), JStr("low")}
OptionalText == {"description", "owner", "deadline", "source_evidence"}

(* A task of the producer that satisfies the contract of section 3 and   *)
(* carries no created_at of its own.                                     *)
ConformingTask(v) ==
    /\ v.t = "obj"
    /\ DOMAIN v.o \subseteq {"title", "status", "priority"} \cup OptionalText
    /\ Has(v.o, "title") /\ v.o["title"].t = "str"
    /\ Has(v.o, "status") => v.o["status"] \in StatusEnum
    /\ Has(v.o, "priority") => v.o["priority"] \in PriorityEnum
    /\ \A k \in OptionalText : Has(v.o, k) => v.o[k].t \in {"str", "null"}

(* summary and tasks supplied validly *)
ConformingBody ==
    /\ ProducerHasTasks
    /\ Has(ProducerObject, "summary") /\ ProducerObject["summary"].t = "str"
    /\ \A i \in DOMAIN ProducerTasks : ConformingTask(ProducerTasks[i])

OptionalTop == {"project_name", "meeting_date"}

(* every top-level field supplied validly *)
ConformingResponse ==
    /\ ConformingBody
    /\ \A k \in OptionalTop :
          Has(ProducerObject, k) /\ ProducerObject[k].t \in {"str", "null"}

Omits(v, k) == v.t = "obj" /\ ~Has(v.o, k)

ClockTexts == {JStr(Isoformat(n)) : n \in 0..MaxClock}

----------------------------------------------------------------------------
(* Properties *)

(* C1: with a credential present, an empty or whitespace-only             *)
(* document_text ends in the 400 response and generate_content has been   *)
(* called zero times.                                                     *)
C1_BlankTextRejected ==
    (Done /\ CredentialPresent /\ DocumentTextBlank)
        => (http.status_code = 400 /\ calls = 0)

(* C2: a producer response that parses and has a task whose status or     *)
(* priority is outside its enumeration ends in the schema-violation       *)
(* response, never in a success.                                          *)
OutOfEnumeration(v) ==
    /\ v.t = "obj"
    /\ \/ Has(v.o, "status") /\ v.o["status"] \notin StatusEnum
       \/ Has(v.o, "priority") /\ v.o["priority"] \notin PriorityEnum

C2_EnumerationEnforced ==
    (Done /\ ProducerHasTasks
          /\ \E i \in DOMAIN ProducerTasks : OutOfEnumeration(ProducerTasks[i]))
        => (http.status_code # 200 /\ http.errors # {})

(* C3: a producer response that is not JSON ends in an error that carries *)
(* the raw response text unchanged.                                       *)
C3_MalformedCarriesText ==
    (Done /\ producer.t = "text" /\ producer.text.t = "prose")
        => (http.status_code # 200 /\ http.detail = producer.text.s)

(* C4: two invocations that fail with different error kinds return        *)
(* responses whose classification differs.                                *)
C4_KindsDistinguishable ==
    (Done /\ prev.kind \notin {"", "none"} /\ ErrorKind # "none"
          /\ prev.kind # ErrorKind)
        => prev.class # Classification(http)

(* C5: generate_content is called at most once per invocation: once when  *)
(* the credential is present and document_text is accepted, never when    *)
(* the credential is missing (the configuration error is returned and the *)
(* body is not read); after the call has returned or raised the           *)
(* invocation ends without another call.                                  *)
DocumentTextAccepted ==
    /\ RequestIsObject
    /\ Has(req.v.o, "document_text")
    /\ req.v.o["document_text"] \notin {JNull, JStr(""), JNum(0)}

C5_CallState ==
    /\ calls \in {0, 1}
    /\ Done => (calls = IF CredentialPresent /\ DocumentTextAccepted THEN 1 ELSE 0)
    /\ (Done /\ ~CredentialPresent) => (http = MissingKey /\ raw_text = JNull)

C5_AtMostOneCall ==
    /\ []C5_CallState
    /\ [][pc = "finish" => (pc' = "done" /\ calls' = calls)]_vars

C5_Witness ==
    /\ Done /\ calls = 1
    /\ http.status_code = 500
    /\ producer.t = "raise"

(* C6: when every top-level field is supplied validly and the tasks       *)
(* conform, whatever subset of status, priority and owner a task omits,   *)
(* binding succeeds, the omitted fields are pending, medium and           *)
(* Unassigned, the task sequence keeps its length and order, and every    *)
(* supplied field has the producer's value.                               *)
DefaultOf(k) ==
    CASE k = "status"   -> JStr("pending")
      [] k = "priority" -> JStr("medium")
      [] k = "owner"    -> JStr("Unassigned")

C6_DefaultsInjected ==
    (Done /\ ConformingResponse)
        => /\ http.status_code = 200
           /\ Len(ResultTasks) = Len(ProducerTasks)
           /\ \A i \in DOMAIN ProducerTasks :
                 /\ \A k \in DOMAIN ProducerTasks[i].o :
                       ResultTasks[i].o[k] = ProducerTasks[i].o[k]
                 /\ \A k \in Defaulted :
                       Omits(ProducerTasks[i], k) => ResultTasks[i].o[k] = DefaultOf(k)
           /\ \A k \in DOMAIN ProducerObject \ {"tasks"} :
                 http.data.o[k] = ProducerObject[k]

C6_Witness ==
    /\ Succeeded /\ ConformingResponse
    /\ Len(ProducerTasks) = 2
    /\ DOMAIN ProducerTasks[1].o \cap Defaulted = {}
    /\ DOMAIN ProducerTasks[2].o \cap Defaulted = {"priority"}
    /\ ResultTasks[1].o["owner"] = JStr("Unassigned")
    /\ ResultTasks[2].o["priority"] = JStr("high")

(* C7: a producer response that supplies summary and tasks validly and    *)
(* omits project_name and/or meeting_date binds successfully, the omitted *)
(* field being null; it is never a schema violation.                      *)
C7_OptionalTopOmitted ==
    (Done /\ ConformingBody
          /\ (\E k \in OptionalTop : ~Has(ProducerObject, k))
          /\ (\A k \in OptionalTop :
                 Has(ProducerObject, k) => ProducerObject[k].t \in {"str", "null"}))
        => /\ http.status_code = 200
           /\ \A k \in OptionalTop :
                 ~Has(ProducerObject, k) => http.data.o[k] = JNull

C9_CreatedAtFromClock ==
    Succeeded => \A i \in DOMAIN ResultTasks :
        /\ ResultTasks[i].o["created_at"] \in ClockTexts
        /\ Has(ProducerTasks[i].o, "created_at")
              => ResultTasks[i].o["created_at"] # ProducerTasks[i].o["created_at"]

(* C10: every invocation ends by returning an HTTP response; no exception *)
(* escapes the handler.                                                   *)
C10_AlwaysResponds ==
    Done => (http.escaped = "" /\ http.status_code \in {200, 400, 500})

====
